---- MODULE Spec2Model ----
(***************************************************************************)
(* PKCE browser client (ui/src/api.ts, AuthContext.tsx, Callback.tsx) and  *)
(* the Express request pipeline of the image service (app.ts,              *)
(* adminRoutes.ts, controllers), as two state machines:                    *)
(*   Spec        one browser tab: session storage, the module-level config *)
(*               cache, the AuthProvider and Callback components and the   *)
(*               async functions of api.ts, one action per synchronous     *)
(*               run between two awaits;                                   *)
(*   ServerSpec  one request at a time through the middleware chain.       *)
(***************************************************************************)
EXTENDS Integers, Sequences, FiniteSets, TLC

VARIABLES
    storage,    \* sessionStorage: the five keys of api.ts
    cfg,        \* COGNITO_DOMAIN / COGNITO_CLIENT_ID module cache
    now,        \* Math.floor(Date.now() / 1000)
    attempts,   \* number of startLogin calls that generated state/verifier
    logins,     \* startLogin calls in flight
    logout,     \* doLogout call in flight
    user,       \* AuthProvider: useState user
    loading,    \* AuthProvider: useState loading
    boot,       \* AuthProvider: the mount effect and its closure variables
    cb,         \* Callback component: params, hasExchanged, error
    exch,       \* the exchangeCodeForTokens call of the Callback page
    gcu,        \* output of the last step: a getCurrentUser call that settled
    fetched,    \* output of the last step: an authenticatedFetch call
    sentAuth,   \* output of the last step: a request sent with a bearer token
    page,       \* output of the last step: what a page load found in storage
    req,        \* server: the request being served
    res,        \* server: the response under construction
    stage,      \* server: position in the middleware chain
    srv,        \* server: module-level config cache of utils/config.ts
    pkce,       \* server: one call of a PKCE helper of utils/config.ts
    ident       \* one set of claims and the identities derived from it

clientVars == <<storage, cfg, now, attempts, logins, logout, user, loading,
                boot, cb, exch, gcu, fetched, sentAuth, page>>
serverVars == <<req, res, stage, srv>>
utilVars == <<pkce, ident>>
otherVars == <<serverVars, utilVars>>
vars == <<storage, cfg, now, attempts, logins, logout, user, loading,
          boot, cb, exch, gcu, fetched, sentAuth, page,
          req, res, stage, srv, pkce, ident>>

(***************************************************************************)
(* Bounds of the model.                                                    *)
(***************************************************************************)
MaxLogins == 2      \* startLogin calls that reach the random generators
MaxNow == 2         \* the clock runs 1 .. MaxNow
TokenTTL == 0       \* ticks after its issue at which a token is still valid
MaxDigestLen == 4   \* bytes of a digest or random buffer the model keeps
MaxLength == 43     \* lengths asked of generateRandomString: 0 .. MaxLength

Subs == {"alice"}

(***************************************************************************)
(* Tokens, users, storage.                                                 *)
(***************************************************************************)
NoToken == [kind |-> "none", use |-> "none", sub |-> "none", exp |-> 0]
Jwt(use, sub, exp) == [kind |-> "jwt", use |-> use, sub |-> sub, exp |-> exp]
Garbage(use) == [kind |-> "garbage", use |-> use, sub |-> "none", exp |-> 0]

NoUser == [sub |-> "none", from |-> "none"]

\* sessionStorage after removeItem of every key
EmptyStorage ==
    [verifier |-> 0, state |-> 0, redirect |-> 0,
     access |-> NoToken, id |-> NoToken]

\* getItem returns null for a missing key; 0 and NoToken stand for null
Present(t) == t.kind # "none"

getAccessToken(s) == s.access
getIdToken(s) == s.id

storeAccessToken(s, t) == [s EXCEPT !.access = t]
storeIdToken(s, t) == [s EXCEPT !.id = t]

clearTokens(s) ==
    [s EXCEPT !.access = NoToken, !.id = NoToken,
              !.verifier = 0, !.state = 0, !.redirect = 0]

\* JSON.parse(atob(token.split('.')[1])) throws unless the token is a JWT
Decodable(t) == t.kind = "jwt"

\* exp && exp < now
Expired(t, n) == t.exp # 0 /\ t.exp < n

\* the identity both components build from the decoded ID token
UserFromToken(t) == [sub |-> t.sub, from |-> "idToken"]

\* data.user of a /v1/profile answer for the bearer token
ProfileUser(t) == [sub |-> t.sub, from |-> "profile"]

(***************************************************************************)
(* loadCognitoConfig.                                                      *)
(***************************************************************************)
\* What a call does before its first await: return on a cache hit, or fetch.
\* After a hit the caller resumes in a microtask, before any other event of
\* the tab, so a caller's step runs through a hit to its next await.
LoadCall(c) == IF c = "cached" THEN "hit" ELSE "fetch"

\* How a call that fetched can settle.
\*   ok         both fetches answered, config has both fields
\*   missing    config body lacks cognitoDomain or cognitoClientId
\*   fetchFail  /v1/config failed, was not ok or was not JSON
\*   debugFail  config stored, then the debug /v1/profile fetch threw
LoadOutcomes(how) ==
    IF how = "hit" THEN {"hit"} ELSE {"ok", "missing", "fetchFail", "debugFail"}

\* Lines 30-31 assign whatever the body holds, also over values an
\* overlapping call has stored meanwhile; a failed fetch assigns nothing.
CfgAfter(c, o) ==
    IF o \in {"ok", "debugFail"} THEN "cached"
    ELSE IF o = "missing" THEN "none"
    ELSE c

LoadThrows(o) == o \in {"fetchFail", "debugFail"}

\* !COGNITO_DOMAIN || !COGNITO_CLIENT_ID
NotAvailable(c) == c # "cached"

ConfigErrors == {"Failed to load Cognito configuration",
                 "Cognito configuration not available"}

\* the error a caller gets after awaiting loadCognitoConfig, "" for none
ConfigError(c, o) ==
    IF LoadThrows(o) THEN "Failed to load Cognito configuration"
    ELSE IF NotAvailable(CfgAfter(c, o)) THEN "Cognito configuration not available"
    ELSE ""

(***************************************************************************)
(* exchangeCodeForTokens: the state check and the token request.           *)
(***************************************************************************)
InvalidStateError == "Invalid state or missing code verifier"
\* response.text() of a token answer that is not ok
ProviderTexts == {"invalid_grant", "invalid_client"}

\* `Token exchange failed: ${errorText}`
TokenExchangeError(errorText) == "Token exchange failed: " \o errorText
NetworkError == "Failed to fetch"
JsonError == "Unexpected token in JSON"

\* getRedirectUri(): `${window.location.origin}/callback`, one value per tab
getRedirectUri == 1

\* A faulty variant of the check of line 96 that never compares the state
\* of the callback with the stored one.
StateCheckWithoutComparison(storedState, state, codeVerifier) ==
    storedState = 0 \/ codeVerifier = 0

\* !storedState || state !== storedState || !codeVerifier
StateCheckFails(storedState, state, codeVerifier) ==
    storedState = 0 \/ state # storedState \/ codeVerifier = 0

NoRequest == [code |-> 0, verifier |-> 0, redirect |-> 0]

\* A faulty variant of lines 102-108 that leaves the code verifier out.
TokenRequestWithoutVerifier(code, codeVerifier, storedRedirectUri) ==
    [code |-> code, verifier |-> 0,
     redirect |-> IF storedRedirectUri # 0 THEN storedRedirectUri ELSE getRedirectUri]

\* tokenParams: code, redirect_uri (stored || getRedirectUri()), code_verifier
TokenRequest(code, codeVerifier, storedRedirectUri) ==
    [code |-> code, verifier |-> codeVerifier,
     redirect |-> IF storedRedirectUri # 0 THEN storedRedirectUri
                  ELSE getRedirectUri]

NoTokens == [access |-> NoToken, id |-> NoToken]

\* The call: its arguments, whether its POST went out and with what, and how
\* it ended (error thrown, or tokens returned).
ExchIdle ==
    [pc |-> "idle", code |-> 0, state |-> 0,
     sent |-> FALSE, request |-> NoRequest, error |-> "", tokens |-> NoTokens]

\* Lines 92-114, run once the awaited loadCognitoConfig has settled without
\* error: read the three keys, throw on a failed check, else send the POST.
ExchangeCheck(e, s) ==
    IF StateCheckFails(s.state, e.state, s.verifier)
    THEN [e EXCEPT !.pc = "failed", !.error = InvalidStateError]
    ELSE [e EXCEPT !.pc = "token", !.sent = TRUE,
                   !.request = TokenRequest(e.code, s.verifier, s.redirect)]

\* What the token endpoint can answer at clock n: a failure, or a token pair
\* for one user whose id_token is optional.
TokenAnswers(n) ==
    {[kind |-> "rejected", text |-> t, access |-> NoToken, id |-> NoToken] :
        t \in ProviderTexts}
    \cup
    {[kind |-> k, text |-> "", access |-> NoToken, id |-> NoToken] :
        k \in {"network", "badjson"}}
    \cup
    UNION {{[kind |-> "ok", text |-> "", access |-> a, id |-> i] :
                a \in {Jwt("access", u, n + TokenTTL)},
                i \in {NoToken, Garbage("id"), Jwt("id", u, n + TokenTTL)}} :
           u \in Subs}

\* A faulty variant of lines 122-124 that leaves the redirect URI behind.
StorageKeepingRedirectUri(s, ans) ==
    IF ans.kind = "ok" THEN [s EXCEPT !.verifier = 0, !.state = 0] ELSE s

\* Lines 116-125: sessionStorage after the answer; only a parsed success
\* answer removes the three PKCE keys.
StorageAfterExchange(s, ans) ==
    IF ans.kind = "ok"
    THEN [s EXCEPT !.verifier = 0, !.state = 0, !.redirect = 0]
    ELSE s

\* Lines 110-125: the call's record after the answer.
ExchangeSettle(e, ans) ==
    CASE ans.kind = "ok" ->
            [e EXCEPT !.pc = "ok", !.tokens = [access |-> ans.access, id |-> ans.id]]
      [] ans.kind = "rejected" ->
            [e EXCEPT !.pc = "failed", !.error = TokenExchangeError(ans.text)]
      [] ans.kind = "network" ->
            [e EXCEPT !.pc = "failed", !.error = NetworkError]
      [] OTHER ->
            [e EXCEPT !.pc = "failed", !.error = JsonError]

(***************************************************************************)
(* getCurrentUser and authenticatedFetch.                                  *)
(***************************************************************************)
\* A faulty variant of lines 163 and 201 that prefers the access token.
BearerTokenAccessFirst(s) ==
    IF Present(getAccessToken(s)) THEN getAccessToken(s) ELSE getIdToken(s)

\* getIdToken() || getAccessToken()
BearerToken(s) == IF Present(getIdToken(s)) THEN getIdToken(s) ELSE getAccessToken(s)

\* an outgoing request with `Authorization: Bearer ${t}`, sent at clock n
NoAuthRequest == [scheme |-> "none", bearer |-> NoToken, at |-> 0]
AuthRequest(t, n) == [scheme |-> "Bearer", bearer |-> t, at |-> n]

\* How the profile request can settle for bearer token t at clock n; the
\* gateway answers with a user only for a JWT it accepts.
ProfileOutcomes(t, n) ==
    {"unauthenticated", "status401", "status500", "network", "notjson"}
    \cup (IF t.kind = "jwt" /\ t.exp >= n THEN {"user"} ELSE {})

\* A faulty variant of getCurrentUser without the try/catch of lines
\* 169-193: a failed fetch or an unparsable body rejects the call.
GetCurrentUserUncaught(outcome, t) ==
    CASE outcome = "user" -> [threw |-> FALSE, value |-> ProfileUser(t)]
      [] outcome \in {"network", "notjson"} -> [threw |-> TRUE, value |-> NoUser]
      [] OTHER -> [threw |-> FALSE, value |-> NoUser]

\* Lines 163-193: what the call resolves to; threw is a rejected promise.
GetCurrentUserResult(outcome, t) ==
    CASE outcome = "noToken" -> [threw |-> FALSE, value |-> NoUser]
      [] outcome = "user" -> [threw |-> FALSE, value |-> ProfileUser(t)]
      [] outcome = "unauthenticated" -> [threw |-> FALSE, value |-> NoUser]
      [] outcome \in {"status401", "status500"} -> [threw |-> FALSE, value |-> NoUser]
      [] OTHER -> [threw |-> FALSE, value |-> NoUser]

NoCall == [settled |-> FALSE, threw |-> FALSE, value |-> NoUser]

\* a settled call with bearer token t whose request ended with o (or
\* "noToken": none was sent): whether it rejected, and what it resolved to
SettledCall(o, t) ==
    [settled |-> TRUE,
     threw |-> GetCurrentUserResult(o, t).threw,
     value |-> GetCurrentUserResult(o, t).value]

NoCredentialError == "No access token or ID token available"

\* what a caller hands to authenticatedFetch: a URL and a RequestInit with
\* its method, its body and its headers ("none": the header is not given)
FetchUrls == {"/v1/admin/ping"}

FetchOptions ==
    {[method |-> "GET", body |-> "none",
      headers |-> [Authorization |-> "none", Accept |-> "none"]],
     [method |-> "POST", body |-> "payload",
      headers |-> [Authorization |-> "Basic caller",
                   Accept |-> "application/json"]]}

\* the argument list of one fetch(url, init) call
FetchCall(url, init) == [url |-> url, init |-> init]

\* An authenticatedFetch call: its arguments, the error it threw, and the
\* fetch calls it made.
NoFetch ==
    [called |-> FALSE, args |-> <<>>, error |-> "", sent |-> FALSE,
     bearer |-> NoToken, requests |-> <<>>]

FetchCalled(url, options) ==
    [NoFetch EXCEPT !.called = TRUE, !.args = <<url, options>>]

\* A faulty variant of lines 206-213 that builds the headers anew and so
\* drops the headers the caller gave.
AuthenticatedFetchDroppingHeaders(s, url, options) ==
    IF ~Present(BearerToken(s))
    THEN [FetchCalled(url, options) EXCEPT !.error = NoCredentialError]
    ELSE [FetchCalled(url, options) EXCEPT
             !.sent = TRUE, !.bearer = BearerToken(s),
             !.requests =
                 <<FetchCall(url,
                       [options EXCEPT !.headers =
                           [Authorization |-> <<"Bearer", BearerToken(s)>>,
                            Accept |-> "none"]])>>]

\* Lines 196-214: the throw of line 203, or new Headers(options.headers),
\* headers.set("Authorization", ...) and fetch(url, {...options, headers}).
AuthenticatedFetchResult(s, url, options) ==
    IF ~Present(BearerToken(s))
    THEN [FetchCalled(url, options) EXCEPT !.error = NoCredentialError]
    ELSE [FetchCalled(url, options) EXCEPT
             !.sent = TRUE, !.bearer = BearerToken(s),
             !.requests =
                 <<FetchCall(url,
                       [options EXCEPT !.headers.Authorization =
                           <<"Bearer", BearerToken(s)>>])>>]

(***************************************************************************)
(* The browser tab.  gcu, fetched, sentAuth and page hold what the last   *)
(* step put out (a settled getCurrentUser, an authenticatedFetch result,   *)
(* an authorised request, the finding a page load logs) and are blank      *)
(* after every other step.  No step of the tab reads them; they are taken  *)
(* (Discard) before the next step of the tab runs.                         *)
(***************************************************************************)
Attempts == 1 .. MaxLogins

\* a page other than /callback
NoCallback ==
    [mounted |-> FALSE, code |-> 0, state |-> 0, errorParam |-> FALSE,
     hasExchanged |-> FALSE, error |-> "", pc |-> "none", bearer |-> NoToken]

\* the page after the router has left /callback
Unmounted == [NoCallback EXCEPT !.pc = "unmounted"]

\* /callback?code=..&state=..&error=..; 0 is a missing parameter.  The
\* provider sends either an error or a code, with the state it was given.
CallbackUrls ==
    {[path |-> "callback", code |-> 1, state |-> st, errorParam |-> FALSE] :
        st \in 0 .. MaxLogins}
    \cup
    {[path |-> "callback", code |-> 0, state |-> st, errorParam |-> e] :
        st \in {0, 1}, e \in BOOLEAN}

Urls == {[path |-> "home", code |-> 0, state |-> 0, errorParam |-> FALSE]}
        \cup CallbackUrls

\* AuthProvider before its mount effect has found a usable token
BootStart == [pc |-> "done", userFromToken |-> NoUser, bearer |-> NoToken]

\* no startLogin call in flight
NoLogins == [fetch |-> 0, challenge |-> {}]

Silent ==
    /\ gcu' = NoCall
    /\ fetched' = NoFetch
    /\ sentAuth' = NoAuthRequest
    /\ page' = "running"

\* A new tab on the home page, its mount effects run: nothing is stored.
ClientInit ==
    /\ storage = EmptyStorage
    /\ cfg = "none"
    /\ now = 1
    /\ attempts = 0
    /\ logins = NoLogins
    /\ logout = "idle"
    /\ user = NoUser
    /\ loading = FALSE
    /\ boot = BootStart
    /\ cb = NoCallback
    /\ exch = ExchIdle
    /\ gcu = NoCall
    /\ fetched = NoFetch
    /\ sentAuth = NoAuthRequest
    /\ page = "noTokens"

Tick ==
    /\ now < MaxNow
    /\ now' = now + 1
    /\ Silent
    /\ UNCHANGED <<storage, cfg, attempts, logins, logout, user, loading,
                   boot, cb, exch>>

(***************************************************************************)
(* startLogin.  logins.fetch counts the calls awaiting the fetches of      *)
(* loadCognitoConfig; logins.challenge holds the attempts awaiting         *)
(* generateCodeChallenge.  Attempt n is the call that generated state n    *)
(* and verifier n at lines 62-63.                                          *)
(***************************************************************************)
\* Lines 58-64 after loadCognitoConfig settled with o: throw, or generate
\* the next state and verifier and go on to `await generateCodeChallenge`.
LoginAfterConfig(l, a, c, o) ==
    IF ConfigError(c, o) # "" THEN l
    ELSE [l EXCEPT !.challenge = @ \cup {a + 1}]

AttemptsAfterConfig(a, c, o) == IF ConfigError(c, o) # "" THEN a ELSE a + 1

\* The call up to its first await that suspends.
StartLogin ==
    /\ attempts + logins.fetch < MaxLogins
    /\ IF LoadCall(cfg) = "hit"
       THEN /\ logins' = LoginAfterConfig(logins, attempts, cfg, "hit")
            /\ attempts' = AttemptsAfterConfig(attempts, cfg, "hit")
       ELSE /\ logins' = [logins EXCEPT !.fetch = @ + 1]
            /\ UNCHANGED attempts
    /\ Silent
    /\ UNCHANGED <<storage, cfg, now, logout, user, loading, boot, cb, exch>>

\* loadCognitoConfig settles for one of the calls that fetched.
StartLoginConfig(o) ==
    /\ logins.fetch > 0
    /\ o \in LoadOutcomes("fetch")
    /\ cfg' = CfgAfter(cfg, o)
    /\ logins' = LoginAfterConfig([logins EXCEPT !.fetch = @ - 1], attempts, cfg, o)
    /\ attempts' = AttemptsAfterConfig(attempts, cfg, o)
    /\ Silent
    /\ UNCHANGED <<storage, now, logout, user, loading, boot, cb, exch>>

\* A faulty variant of lines 66-68 that starts a login with the tokens
\* of the previous session removed.
StoreAttemptDroppingTokens(s, n) ==
    [clearTokens(s) EXCEPT !.verifier = n, !.state = n, !.redirect = getRedirectUri]

\* A faulty variant of lines 66-68 that keeps a verifier already stored.
StoreAttemptKeepingVerifier(s, n) ==
    [s EXCEPT !.verifier = IF @ = 0 THEN n ELSE @, !.state = n,
              !.redirect = getRedirectUri]

\* A faulty variant of lines 66-68 that keeps the keys of a pending attempt.
StoreAttemptKeepingPending(s, n) ==
    IF s.state # 0 THEN s
    ELSE [s EXCEPT !.verifier = n, !.state = n, !.redirect = getRedirectUri]

\* A faulty variant of lines 66-68 without the setItem of line 68.
StoreAttemptWithoutRedirectUri(s, n) ==
    [s EXCEPT !.verifier = n, !.state = n]

\* Lines 66-68: the three setItem calls of attempt n.
StoreAttempt(s, n) ==
    [s EXCEPT !.verifier = n, !.state = n, !.redirect = getRedirectUri]

\* Lines 66-79: store, build the authorize URL, assign window.location.href.
StartLoginRedirect(n) ==
    /\ n \in logins.challenge
    /\ storage' = StoreAttempt(storage, n)
    /\ logins' = [logins EXCEPT !.challenge = @ \ {n}]
    /\ Silent
    /\ UNCHANGED <<cfg, now, attempts, logout, user, loading, boot, cb, exch>>

(***************************************************************************)
(* doLogout.                                                               *)
(***************************************************************************)
\* Lines 153-158: storage when loadCognitoConfig has settled with o; only a
\* throwing loadCognitoConfig stops the call before clearTokens().
LogoutStorage(s, o) == IF LoadThrows(o) THEN s ELSE clearTokens(s)

DoLogout ==
    /\ logout = "idle"
    /\ IF LoadCall(cfg) = "hit"
       THEN logout' = "idle" /\ storage' = LogoutStorage(storage, "hit")
       ELSE logout' = "fetch" /\ UNCHANGED storage
    /\ Silent
    /\ UNCHANGED <<cfg, now, attempts, logins, user, loading, boot, cb, exch>>

DoLogoutConfig(o) ==
    /\ logout = "fetch"
    /\ o \in LoadOutcomes("fetch")
    /\ cfg' = CfgAfter(cfg, o)
    /\ logout' = "idle"
    /\ storage' = LogoutStorage(storage, o)
    /\ Silent
    /\ UNCHANGED <<now, attempts, logins, user, loading, boot, cb, exch>>

(***************************************************************************)
(* AuthProvider: the mount effect (AuthContext.tsx 27-126).                *)
(***************************************************************************)
\* Lines 37-90: the token the effect decodes, the ID token when present.
CheckedToken(s) ==
    IF Present(getIdToken(s)) THEN getIdToken(s) ELSE getAccessToken(s)

\* Lines 32-90: what the effect finds in storage at clock n.
BootDecision(s, n) ==
    IF ~Present(getAccessToken(s)) /\ ~Present(getIdToken(s)) THEN "noTokens"
    ELSE IF ~Decodable(CheckedToken(s)) THEN "undecodable"
    ELSE IF Expired(CheckedToken(s), n) THEN "expired"
    ELSE "valid"

\* A faulty variant of the effect that purges storage only when the token
\* cannot be decoded, not when it has expired.
BootStorageKeepingExpired(s, n) ==
    IF BootDecision(s, n) = "undecodable" THEN clearTokens(s) ELSE s

\* Lines 47, 66, 79, 86: storage after the effect's synchronous part.
BootStorage(s, n) ==
    IF BootDecision(s, n) \in {"undecodable", "expired"} THEN clearTokens(s) ELSE s

\* Lines 52-62: the provisional identity, built from the ID token only.
BootUserFromToken(s) ==
    IF Present(getIdToken(s)) THEN UserFromToken(getIdToken(s)) ELSE NoUser

\* The effect up to the getCurrentUser() call, whose request goes out before
\* its first await: the closure it leaves, user, loading, and the request.
BootAfterEffect(s, n) ==
    IF BootDecision(s, n) = "valid"
    THEN [pc |-> "profile", userFromToken |-> BootUserFromToken(s),
          bearer |-> BearerToken(s)]
    ELSE BootStart

\* Line 62: setUser(userFromToken), on a page whose user is still null.
BootUser(s, n) ==
    IF BootDecision(s, n) = "valid" THEN BootUserFromToken(s) ELSE NoUser

\* A faulty variant of the effect whose expired-token path returns without
\* setLoading(false).
BootLoadingExpiredStuck(s, n) == BootDecision(s, n) \in {"valid", "expired"}

\* Lines 48, 67, 80, 87, 120, 124: every path but the profile call ends
\* with setLoading(false).
BootLoading(s, n) == BootDecision(s, n) = "valid"

BootRequest(s, n) ==
    IF BootDecision(s, n) = "valid" THEN AuthRequest(BearerToken(s), n)
    ELSE NoAuthRequest

\* A faulty variant of the .then of lines 97-109 that stores whatever the
\* profile call resolved to, null included.
BootUserOverwritten(u, r) == r.value

\* Lines 97-118: .then / .catch / .finally of the profile call.
BootUserAfterProfile(u, r) ==
    IF ~r.threw /\ r.value # NoUser THEN r.value ELSE u

BootstrapProfile(o) ==
    /\ boot.pc = "profile"
    /\ o \in ProfileOutcomes(boot.bearer, now)
    /\ gcu' = SettledCall(o, boot.bearer)
    /\ user' = BootUserAfterProfile(user, GetCurrentUserResult(o, boot.bearer))
    /\ loading' = FALSE
    /\ boot' = [boot EXCEPT !.pc = "done"]
    /\ fetched' = NoFetch
    /\ page' = "running"
    /\ sentAuth' = NoAuthRequest
    /\ UNCHANGED <<storage, cfg, now, attempts, logins, logout, cb, exch>>

(***************************************************************************)
(* getCurrentUser and authenticatedFetch called by any other component.    *)
(* The caller's continuation reads nothing of the tab's state, so the      *)
(* request and its answer are one step.                                    *)
(***************************************************************************)
GetCurrentUser(o) ==
    /\ IF Present(BearerToken(storage))
       THEN /\ o \in ProfileOutcomes(BearerToken(storage), now)
            /\ sentAuth' = AuthRequest(BearerToken(storage), now)
       ELSE /\ o = "noToken"
            /\ sentAuth' = NoAuthRequest
    /\ gcu' = SettledCall(o, BearerToken(storage))
    /\ fetched' = NoFetch
    /\ page' = "running"
    /\ UNCHANGED <<storage, cfg, now, attempts, logins, logout, user, loading,
                   boot, cb, exch>>

AuthenticatedFetch(url, options) ==
    /\ fetched' = AuthenticatedFetchResult(storage, url, options)
    /\ sentAuth' = IF fetched'.sent THEN AuthRequest(fetched'.bearer, now)
                   ELSE NoAuthRequest
    /\ gcu' = NoCall
    /\ page' = "running"
    /\ UNCHANGED <<storage, cfg, now, attempts, logins, logout, user, loading,
                   boot, cb, exch>>

(***************************************************************************)
(* Callback page (Callback.tsx).                                           *)
(***************************************************************************)
ProviderErrorMessage == "errorParam: error_description"
MissingParamsMessage == "Missing authorization code or state"
NoUserMessage == "Failed to get user information"
ProfileThrewMessage == "getCurrentUser rejected"

\* setError(msg); setTimeout(() => navigate('/'), 3000)
CallbackFail(c, msg) == [c EXCEPT !.error = msg, !.pc = "timer"]

\* navigate(..., {replace: true}): the router will unmount the component
CallbackLeave(c) == [c EXCEPT !.pc = "navigated"]

\* Lines 21-36: whether the effect goes on to the exchange.
CallbackValid(c) == ~c.errorParam /\ c.code # 0 /\ c.state # 0

\* exchangeCodeForTokens lines 86-114 once loadCognitoConfig has settled; a
\* throw lands in the page's .catch (lines 74-77).
ExchangeAfterConfig(e, s, c, o) ==
    IF ConfigError(c, o) # ""
    THEN [e EXCEPT !.pc = "failed", !.error = ConfigError(c, o)]
    ELSE ExchangeCheck(e, s)

\* exchangeCodeForTokens(code, state) up to its first await that suspends.
ExchangeCall(code, state, s, c) ==
    IF LoadCall(c) = "hit"
    THEN ExchangeAfterConfig([ExchIdle EXCEPT !.code = code, !.state = state],
                             s, c, "hit")
    ELSE [ExchIdle EXCEPT !.pc = "config", !.code = code, !.state = state]

\* A faulty variant of the effect without the check of line 14.
EffectExchangeUnguarded(c, e, s, cf) ==
    IF CallbackValid(c) THEN ExchangeCall(c.code, c.state, s, cf) ELSE e

\* Lines 13-38: the effect, on mount and on every re-run, up to the first
\* await that suspends inside exchangeCodeForTokens: the call it makes.
EffectExchange(c, e, s, cf) ==
    IF ~c.hasExchanged /\ CallbackValid(c)
    THEN ExchangeCall(c.code, c.state, s, cf)
    ELSE e

\* ... and the component after it.
EffectCallback(c, e, s, cf) ==
    IF ~c.mounted \/ c.hasExchanged THEN c
    ELSE IF c.errorParam THEN CallbackFail(c, ProviderErrorMessage)
    ELSE IF ~CallbackValid(c) THEN CallbackFail(c, MissingParamsMessage)
    ELSE IF EffectExchange(c, e, s, cf).pc = "failed"
    THEN CallbackFail([c EXCEPT !.hasExchanged = TRUE],
                      EffectExchange(c, e, s, cf).error)
    ELSE [c EXCEPT !.hasExchanged = TRUE, !.pc = "exchanging"]

\* A re-run of the effect while the page is mounted.
CallbackEffect ==
    /\ cb.mounted
    /\ cb' = EffectCallback(cb, exch, storage, cfg)
    /\ exch' = EffectExchange(cb, exch, storage, cfg)
    /\ Silent
    /\ UNCHANGED <<storage, cfg, now, attempts, logins, logout, user, loading,
                   boot>>

\* The page a URL mounts, before its effect.
Mounted(url) ==
    IF url.path = "callback"
    THEN [mounted |-> TRUE, code |-> url.code, state |-> url.state,
          errorParam |-> url.errorParam, hasExchanged |-> FALSE,
          error |-> "", pc |-> "mounted", bearer |-> NoToken]
    ELSE NoCallback

\* A full page load (reload, return from the provider, a typed URL): module
\* state and component state start over, pending calls die with the page,
\* sessionStorage survives.  React then runs the mount effects in one task,
\* the Callback page's before the AuthProvider's.
PageLoad(url) ==
    /\ cfg' = "none"
    /\ logins' = NoLogins
    /\ logout' = "idle"
    /\ cb' = EffectCallback(Mounted(url), ExchIdle, storage, "none")
    /\ exch' = EffectExchange(Mounted(url), ExchIdle, storage, "none")
    /\ storage' = BootStorage(storage, now)
    /\ boot' = BootAfterEffect(storage, now)
    /\ user' = BootUser(storage, now)
    /\ loading' = BootLoading(storage, now)
    /\ sentAuth' = BootRequest(storage, now)
    /\ gcu' = NoCall
    /\ fetched' = NoFetch
    /\ page' = BootDecision(storage, now)
    /\ UNCHANGED <<now, attempts>>

ExchangeConfig(o) ==
    /\ exch.pc = "config"
    /\ o \in LoadOutcomes("fetch")
    /\ cfg' = CfgAfter(cfg, o)
    /\ exch' = ExchangeAfterConfig(exch, storage, cfg, o)
    /\ cb' = IF exch'.pc = "failed" THEN CallbackFail(cb, exch'.error) ELSE cb
    /\ Silent
    /\ UNCHANGED <<storage, now, attempts, logins, logout, user, loading, boot>>

\* A faulty variant of lines 40-43 that stores the access token only.
StoreTokensAccessOnly(s, t) == storeAccessToken(s, t.access)

\* Callback.tsx lines 40-43: the tokens the page stores.
StoreTokens(s, t) ==
    IF Present(t.id)
    THEN storeIdToken(storeAccessToken(s, t.access), t.id)
    ELSE storeAccessToken(s, t.access)

\* The token endpoint answers: exchangeCodeForTokens lines 116-125, then the
\* page's .then (lines 39-73) up to its getCurrentUser request, or .catch.
ExchangeToken(ans) ==
    /\ exch.pc = "token"
    /\ ans \in TokenAnswers(now)
    /\ exch' = ExchangeSettle(exch, ans)
    /\ IF exch'.pc = "failed"
       THEN /\ storage' = StorageAfterExchange(storage, ans)
            /\ cb' = CallbackFail(cb, exch'.error)
            /\ sentAuth' = NoAuthRequest
            /\ UNCHANGED user
       ELSE /\ storage' = StoreTokens(StorageAfterExchange(storage, ans), exch'.tokens)
            /\ IF Present(ans.id) /\ Decodable(ans.id)
               THEN /\ user' = UserFromToken(ans.id)
                    /\ cb' = CallbackLeave(cb)
                    /\ sentAuth' = NoAuthRequest
               ELSE /\ cb' = [cb EXCEPT !.pc = "profile",
                                        !.bearer = BearerToken(storage')]
                    /\ sentAuth' = AuthRequest(BearerToken(storage'), now)
                    /\ UNCHANGED user
    /\ gcu' = NoCall
    /\ fetched' = NoFetch
    /\ page' = "running"
    /\ UNCHANGED <<cfg, now, attempts, logins, logout, loading, boot>>

\* Lines 59, 63, 66-72: the page's own getCurrentUser call settles.
CallbackProfile(o) ==
    /\ cb.mounted /\ cb.pc = "profile"
    /\ o \in ProfileOutcomes(cb.bearer, now)
    /\ gcu' = SettledCall(o, cb.bearer)
    /\ IF gcu'.threw
       THEN cb' = CallbackFail(cb, ProfileThrewMessage) /\ UNCHANGED user
       ELSE IF gcu'.value # NoUser
       THEN cb' = CallbackLeave(cb) /\ user' = gcu'.value
       ELSE cb' = CallbackFail(cb, NoUserMessage) /\ UNCHANGED user
    /\ fetched' = NoFetch
    /\ page' = "running"
    /\ sentAuth' = NoAuthRequest
    /\ UNCHANGED <<storage, cfg, now, attempts, logins, logout, loading, boot,
                   exch>>

\* The router renders the new route, after navigate('/profile') or when the
\* 3 s timer of an error path calls navigate('/'): the component, its ref
\* and state and the settled call are gone.
CallbackUnmount ==
    /\ cb.mounted /\ cb.pc \in {"navigated", "timer"}
    /\ cb' = Unmounted
    /\ exch' = ExchIdle
    /\ Silent
    /\ UNCHANGED <<storage, cfg, now, attempts, logins, logout, user, loading,
                   boot>>

(***************************************************************************)
(* The image service: one request through the Express application of       *)
(* app.ts.  stage is the list of middleware still to run for the request;  *)
(* a middleware either calls next(), calls next(err) or ends the response. *)
(***************************************************************************)
Origins == {"none", "https://app.example", "not a url"}

AllowMethods == "GET,POST,PUT,DELETE,OPTIONS"
AllowHeaders == "Content-Type,Authorization"

\* the cognito:groups claim: absent, a single string or a list of strings
NoGroups == [form |-> "none", str |-> "", list |-> <<>>]
GroupString(s) == [form |-> "string", str |-> s, list |-> <<>>]
GroupList(l) == [form |-> "list", str |-> "", list |-> l]

GroupClaims ==
    {NoGroups, GroupString("administrators"), GroupString("users"),
     GroupList(<<"users">>), GroupList(<<"administrators">>),
     GroupList(<<"users", "administrators">>)}

NoClaims == [sub |-> "none", email |-> "none", groups |-> NoGroups]

Claims(sub, groups) ==
    [sub |-> sub,
     email |-> IF sub = "none" THEN "none" ELSE "alice@example.com",
     groups |-> groups]

\* The x-amzn-request-context header: absent, text that is not JSON, the
\* JSON text null, a JSON scalar, or a JSON object with or without an
\* authorizer and its claims.
ContextHeader(json, authorizer, claims) ==
    [json |-> json, authorizer |-> authorizer, claims |-> claims]

NoHeader == ContextHeader("absent", "none", NoClaims)

ContextHeaders ==
    {NoHeader,
     ContextHeader("malformed", "none", NoClaims),
     ContextHeader("null", "none", NoClaims),
     ContextHeader("scalar", "none", NoClaims),
     ContextHeader("object", "none", NoClaims),
     ContextHeader("object", "noClaims", NoClaims)}
    \cup {ContextHeader("object", "claims", Claims("none", NoGroups))}
    \cup {ContextHeader("object", "claims", Claims("alice", g)) :
              g \in GroupClaims}

\* the Referer header, when the request has one
Referers == {"https://app.example/login", "not a url"}

\* req.apiGateway, req.auth and the error handed to next(err)
NoContext == [attached |-> FALSE, requestContext |-> NoHeader]
NoIdentity == [sub |-> "none", email |-> "none", groups |-> {}]
NoErr == [status |-> 0, message |-> ""]

AdminPaths == {"/v1/admin/ping"}
Paths == {"/health", "/v1/config", "/v1/profile", "/missing"} \cup AdminPaths

Request(method, path, origin, header, body) ==
    [method |-> method, path |-> path, origin |-> origin, referer |-> "none",
     header |-> header, body |-> body, apiGateway |-> NoContext,
     auth |-> NoIdentity, err |-> NoErr]

NoRequestIn == Request("none", "none", "none", NoHeader, "none")

Requests ==
    {Request(m, p, o, h, "none") :
         m \in {"GET", "OPTIONS"}, p \in Paths, o \in Origins,
         h \in ContextHeaders}
    \cup {Request("POST", p, o, h, b) :
              p \in Paths, o \in Origins, h \in ContextHeaders,
              b \in {"json", "badJson"}}
    \cup {[Request("GET", "/v1/config", o, NoHeader, "none") EXCEPT
               !.referer = f] : o \in Origins, f \in Referers}

\* the fields of the /v1/config answer the model follows: whether the
\* domain and the region are non-empty, and the redirect URI
NoConfigBody == [cognitoDomain |-> FALSE, cognitoRegion |-> FALSE,
                 redirectUri |-> <<>>]

NoBody ==
    [json |-> "none", error |-> "", debug |-> "", user |-> NoIdentity,
     config |-> NoConfigBody]
ErrorBody(message) == [NoBody EXCEPT !.json = "error", !.error = message]

NoResponse ==
    [sent |-> FALSE, status |-> 0, body |-> NoBody, acao |-> "none",
     methods |-> "none", allowHeaders |-> "none", by |-> "none"]

\* res.header(...) x 3 as written in app.ts 22-24, 71-73 and the controllers
PermissiveHeaders(s) ==
    [s EXCEPT !.acao = "*", !.methods = AllowMethods,
              !.allowHeaders = AllowHeaders]

\* res.status(status).json(body)
Respond(s, status, body, by) ==
    [s EXCEPT !.sent = TRUE, !.status = status, !.body = body, !.by = by]

\* what a middleware hands back: the request, the response, and whether it
\* called next(), next(err) or ended the response
Result(r, s, next) == [req |-> r, res |-> s, next |-> next]

\* app.ts 10-18: the cors package with origin true reflects the request's
\* Origin header (no header when the request has none), answers an OPTIONS
\* request itself with 204 and the method and header lists, and otherwise
\* calls next().  The app.options("*") handler of lines 21-26 is registered
\* after it and is therefore never reached.
cors(r, s) ==
    LET reflected == [s EXCEPT !.acao = r.origin]
    IN  IF r.method = "OPTIONS"
        THEN Result(r, Respond([reflected EXCEPT
                                   !.methods = AllowMethods,
                                   !.allowHeaders = AllowHeaders],
                               204, NoBody, "cors"), "end")
        ELSE Result(r, reflected, "next")

\* app.ts 28: express.json() hands a body that does not parse to next(err)
\* with err.status 400
expressJson(r, s) ==
    IF r.body = "badJson"
    THEN Result([r EXCEPT !.err = [status |-> 400,
                                   message |-> "Unexpected token in JSON"]],
                s, "error")
    ELSE Result(r, s, "next")

\* A faulty variant of the middleware of lines 32-56 without its try/catch:
\* the parse error goes to next(err).
requestContextUncaught(r, s) ==
    CASE r.header.json = "absent" -> Result(r, s, "next")
      [] r.header.json = "malformed" ->
            Result([r EXCEPT !.err = [status |-> 0,
                                      message |-> "Unexpected token in JSON"]],
                   s, "error")
      [] OTHER ->
            Result([r EXCEPT !.apiGateway = [attached |-> TRUE,
                                             requestContext |-> r.header]],
                   s, "next")

\* app.ts 32-56.  JSON.parse throws on text that is not JSON; on the text
\* null, line 40 has already attached the context when line 48 throws.
requestContext(r, s) ==
    IF r.header.json \in {"absent", "malformed"}
    THEN Result(r, s, "next")
    ELSE Result([r EXCEPT !.apiGateway = [attached |-> TRUE,
                                          requestContext |-> r.header]],
                s, "next")

\* middleware/auth.ts, attachAuth: the claims of the forwarded context,
\* with the groups claim normalised to a set; absent unless the context
\* holds an authorizer with claims that name a subject.
NormalizeGroups(g) ==
    CASE g.form = "string" -> {g.str}
      [] g.form = "list" -> {g.list[i] : i \in DOMAIN g.list}
      [] OTHER -> {}

HasClaims(c) ==
    /\ c.attached
    /\ c.requestContext.json = "object"
    /\ c.requestContext.authorizer = "claims"
    /\ c.requestContext.claims.sub # "none"

attachAuth(r, s) ==
    IF HasClaims(r.apiGateway)
    THEN Result([r EXCEPT !.auth =
                     [sub |-> r.apiGateway.requestContext.claims.sub,
                      email |-> r.apiGateway.requestContext.claims.email,
                      groups |-> NormalizeGroups(
                          r.apiGateway.requestContext.claims.groups)]],
                s, "next")
    ELSE Result(r, s, "next")

\* middleware/auth.ts, requireAuth
requireAuth(r, s) ==
    IF r.auth = NoIdentity
    THEN Result(r, Respond(PermissiveHeaders(s), 401,
                           ErrorBody("Authentication required"),
                           "requireAuth"), "end")
    ELSE Result(r, s, "next")

\* middleware/auth.ts, requireGroup(name)
requireGroup(name, r, s) ==
    IF name \notin r.auth.groups
    THEN Result(r, Respond(PermissiveHeaders(s), 403, ErrorBody("Forbidden"),
                           "requireGroup"), "end")
    ELSE Result(r, s, "next")

\* A faulty variant of the chain of adminRoutes.ts 7 that checks the group
\* before it checks that an identity is attached.
AdminChainGroupFirst == <<"attachAuth", "requireGroup", "requireAuth">>

\* adminRoutes.ts 7: router.use(attachAuth, requireAuth,
\* requireGroup("administrators"))
AdminChain == <<"attachAuth", "requireAuth", "requireGroup">>

\* adminRoutes.ts 7-15: the chain, then GET /ping or no route
adminRoutes(r) ==
    AdminChain \o (IF r.method = "GET" /\ r.path = "/v1/admin/ping"
                   THEN <<"ping">>
                   ELSE <<"notFound">>)

\* routes/configRoutes: GET / is getConfig, without authentication
configRoutes(r) ==
    IF r.method = "GET" THEN <<"getConfig">> ELSE <<"notFound">>

\* routes/profileRoutes: GET / is getProfile behind attachAuth, requireAuth
profileRoutes(r) ==
    IF r.method = "GET"
    THEN <<"attachAuth", "requireAuth", "getProfile">>
    ELSE <<"attachAuth", "requireAuth", "notFound">>

\* app.ts 58-64: the routes in the order they are registered
Route(r) ==
    IF r.method = "GET" /\ r.path = "/health" THEN <<"health">>
    ELSE IF r.path = "/v1/config" THEN configRoutes(r)
    ELSE IF r.path = "/v1/profile" THEN profileRoutes(r)
    ELSE IF r.path \in AdminPaths THEN adminRoutes(r)
    ELSE <<"notFound">>

\* app.ts 58-60
health(r, s) ==
    Result(r, Respond(s, 200, [NoBody EXCEPT !.json = "health"], "health"),
           "end")

\* adminRoutes.ts 9-15
ping(r, s) ==
    Result(r, Respond(s, 200, [NoBody EXCEPT !.json = "ping"], "ping"), "end")

\* controllers/profileController.ts 5-37
\* A faulty variant of profileController.ts 18-28 that leaves the groups
\* out of the user it answers.
getProfileWithoutGroups(r, s) ==
    IF r.auth # NoIdentity
    THEN Result(r, Respond(s, 200,
                           [NoBody EXCEPT !.json = "profile",
                                          !.user = [r.auth EXCEPT !.groups = {}]],
                           "getProfile"), "end")
    ELSE Result(r, Respond(s, 401,
                           [ErrorBody("Authentication required") EXCEPT
                               !.debug = "req.auth was not set by middleware"],
                           "getProfile"), "end")

getProfile(r, s) ==
    IF r.auth # NoIdentity
    THEN Result(r, Respond(s, 200, [NoBody EXCEPT !.json = "profile",
                                                  !.user = r.auth],
                           "getProfile"), "end")
    ELSE Result(r, Respond(s, 401,
                           [ErrorBody("Authentication required") EXCEPT
                               !.debug = "req.auth was not set by middleware"],
                           "getProfile"), "end")

\* utils/config.ts 7-10: which module variables are non-empty, and whether
\* the process environment names a region (line 3)
ConfigCache(env) ==
    [domain |-> FALSE, userPool |-> FALSE, region |-> FALSE, env |-> env]

\* the three SSM reads of loadConfig: one of them rejects, or each yields a
\* value, possibly empty; a domain may or may not name its region
NoSsm == [kind |-> "none", domain |-> "", userPool |-> ""]

SsmOutcomes ==
    {[kind |-> "reject", domain |-> "", userPool |-> ""]}
    \cup {[kind |-> "values", domain |-> d, userPool |-> p] :
              d \in {"", "regional", "custom"}, p \in {"", "pool"}}

\* utils/config.ts 12-46
loadConfigThrows(cache, o) == ~cache.domain /\ o.kind = "reject"

loadConfig(cache, o) ==
    IF cache.domain \/ o.kind = "reject"
    THEN cache
    ELSE [cache EXCEPT !.domain = (o.domain # ""),
                       !.userPool = (o.userPool # ""),
                       !.region = (o.domain = "regional" \/ cache.env)]

\* utils/config.ts 55-70
getJwtConfigThrows(cache) == ~cache.userPool \/ ~cache.region

\* configController.ts 12: req.headers.origin || req.headers.referer || ""
OriginOrReferer(r) ==
    IF r.origin # "none" THEN r.origin
    ELSE IF r.referer # "none" THEN r.referer
    ELSE ""

\* configController.ts 8-13: the message of the error thrown inside the
\* try block, "" when nothing is thrown
ConfigFailure(r, cache, o) ==
    IF loadConfigThrows(cache, o) THEN "Failed to load configuration"
    ELSE IF getJwtConfigThrows(loadConfig(cache, o))
    THEN "JWT config not loaded. Call loadConfig() first."
    ELSE IF OriginOrReferer(r) = "not a url" THEN "Invalid URL"
    ELSE ""

\* configController.ts 13: redirectUri, new URL(origin).origin followed by
\* "/callback", for the URLs of the model
RedirectUriFor(r) ==
    CASE OriginOrReferer(r) = "" -> <<>>
      [] OriginOrReferer(r) = "https://app.example" ->
            <<"https://app.example", "/callback">>
      [] OriginOrReferer(r) = "https://app.example/login" ->
            <<"https://app.example", "/callback">>

\* A faulty variant of configController.ts 26-32 that answers with the
\* message of the error it caught.
getConfigLeaking(r, s, cache, o) ==
    IF ConfigFailure(r, cache, o) # ""
    THEN Result(r, Respond(PermissiveHeaders(s), 500,
                           ErrorBody(ConfigFailure(r, cache, o)),
                           "getConfig"), "end")
    ELSE Result(r, Respond(PermissiveHeaders(s), 200,
                           [NoBody EXCEPT
                               !.json = "config",
                               !.config =
                                   [cognitoDomain |-> loadConfig(cache, o).domain,
                                    cognitoRegion |-> loadConfig(cache, o).region,
                                    redirectUri |-> RedirectUriFor(r)]],
                           "getConfig"), "end")

\* controllers/configController.ts 5-33, as served by the image service's
\* /v1/config route.
getConfig(r, s, cache, o) ==
    IF ConfigFailure(r, cache, o) # ""
    THEN Result(r, Respond(PermissiveHeaders(s), 500,
                           ErrorBody("Failed to load configuration"),
                           "getConfig"), "end")
    ELSE Result(r, Respond(PermissiveHeaders(s), 200,
                           [NoBody EXCEPT
                               !.json = "config",
                               !.config =
                                   [cognitoDomain |-> loadConfig(cache, o).domain,
                                    cognitoRegion |-> loadConfig(cache, o).region,
                                    redirectUri |-> RedirectUriFor(r)]],
                           "getConfig"), "end")

\* no route matched: Express answers 404 itself
notFound(r, s) ==
    Result(r, Respond(s, 404, NoBody, "notFound"), "end")

\* app.ts 66-75
errorHandler(r, s) ==
    Result(r, Respond(PermissiveHeaders(s),
                      IF r.err.status # 0 THEN r.err.status ELSE 500,
                      ErrorBody(IF r.err.message # "" THEN r.err.message
                                ELSE "Internal server error"),
                      "errorHandler"), "end")

\* express: next() runs the rest of the chain, next(err) skips to the error
\* handler, and an ended response runs nothing more
After(chain, next) ==
    CASE next = "next" -> Tail(chain)
      [] next = "error" -> <<"error">>
      [] OTHER -> <<>>

At(name) == stage # <<>> /\ Head(stage) = name

Apply(result) ==
    /\ req' = result.req
    /\ res' = result.res
    /\ stage' = After(stage, result.next)

\* app.ts 8-64: the application's own stack
AppStack == <<"cors", "json", "context", "route">>

Receive(r) ==
    /\ stage = <<>> /\ ~res.sent
    /\ req' = r
    /\ res' = NoResponse
    /\ stage' = AppStack
    /\ UNCHANGED <<srv, clientVars, utilVars>>

RunCors ==
    At("cors") /\ Apply(cors(req, res)) /\ UNCHANGED <<srv, clientVars, utilVars>>

RunJson ==
    At("json") /\ Apply(expressJson(req, res)) /\ UNCHANGED <<srv, clientVars, utilVars>>

RunRequestContext ==
    /\ At("context")
    /\ Apply(requestContext(req, res))
    /\ UNCHANGED <<srv, clientVars, utilVars>>

RunRoute ==
    /\ At("route")
    /\ stage' = Route(req)
    /\ UNCHANGED <<req, res, srv, clientVars, utilVars>>

RunAttachAuth ==
    /\ At("attachAuth")
    /\ Apply(attachAuth(req, res))
    /\ UNCHANGED <<srv, clientVars, utilVars>>

RunRequireAuth ==
    /\ At("requireAuth")
    /\ Apply(requireAuth(req, res))
    /\ UNCHANGED <<srv, clientVars, utilVars>>

RunRequireGroup ==
    /\ At("requireGroup")
    /\ Apply(requireGroup("administrators", req, res))
    /\ UNCHANGED <<srv, clientVars, utilVars>>

RunHealth ==
    At("health") /\ Apply(health(req, res)) /\ UNCHANGED <<srv, clientVars, utilVars>>

RunPing ==
    At("ping") /\ Apply(ping(req, res)) /\ UNCHANGED <<srv, clientVars, utilVars>>

RunGetProfile ==
    /\ At("getProfile")
    /\ Apply(getProfile(req, res))
    /\ UNCHANGED <<srv, clientVars, utilVars>>

RunGetConfig(o) ==
    /\ At("getConfig")
    /\ (o = NoSsm) = srv.domain
    /\ Apply(getConfig(req, res, srv, o))
    /\ srv' = loadConfig(srv, o)
    /\ UNCHANGED <<clientVars, utilVars>>

RunNotFound ==
    At("notFound") /\ Apply(notFound(req, res)) /\ UNCHANGED <<srv, clientVars, utilVars>>

RunErrorHandler ==
    /\ At("error")
    /\ Apply(errorHandler(req, res))
    /\ UNCHANGED <<srv, clientVars, utilVars>>

\* the response has been written and the process waits for the next request
Finish ==
    /\ stage = <<>> /\ res.sent
    /\ req' = NoRequestIn
    /\ res' = NoResponse
    /\ stage' = <<>>
    /\ UNCHANGED <<srv, clientVars, utilVars>>

ServerIdle ==
    /\ req = NoRequestIn
    /\ res = NoResponse
    /\ stage = <<>>

(***************************************************************************)
(* The PKCE helpers of the image service (utils/config.ts 72-91).  A call  *)
(* is modelled from the bytes of its buffer on: pkce.digest stands for     *)
(* createHash("sha256").update(codeVerifier).digest(), of which the model   *)
(* keeps the first MaxDigestLen bytes at most.  Strings are sequences of   *)
(* one-character strings.                                                  *)
(***************************************************************************)
\* byte values whose sextets include 62 ('+') and 63 ('/')
Bytes == {0, 1, 62, 63, 127, 251, 254, 255}

RECURSIVE SeqsOf(_, _)
SeqsOf(S, n) ==
    IF n = 0 THEN {<<>>}
    ELSE {Append(q, x) : q \in SeqsOf(S, n - 1), x \in S}

Digests == UNION {SeqsOf(Bytes, n) : n \in 1 .. MaxDigestLen}

\* the alphabet of Buffer's "base64" encoding
Base64Chars ==
    <<"A", "B", "C", "D", "E", "F", "G", "H", "I", "J", "K", "L", "M", "N",
      "O", "P", "Q", "R", "S", "T", "U", "V", "W", "X", "Y", "Z", "a", "b",
      "c", "d", "e", "f", "g", "h", "i", "j", "k", "l", "m", "n", "o", "p",
      "q", "r", "s", "t", "u", "v", "w", "x", "y", "z", "0", "1", "2", "3",
      "4", "5", "6", "7", "8", "9", "+", "/">>

\* one group of up to three bytes as four characters, '=' for padding
Base64Group(b) ==
    <<Base64Chars[(b[1] \div 4) + 1],
      Base64Chars[(b[1] % 4) * 16
                  + (IF Len(b) > 1 THEN b[2] \div 16 ELSE 0) + 1],
      IF Len(b) > 1
      THEN Base64Chars[(b[2] % 16) * 4
                       + (IF Len(b) > 2 THEN b[3] \div 64 ELSE 0) + 1]
      ELSE "=",
      IF Len(b) > 2 THEN Base64Chars[(b[3] % 64) + 1] ELSE "=">>

\* buffer.toString("base64"), hash.digest("base64")
RECURSIVE Base64(_)
Base64(b) ==
    IF Len(b) = 0 THEN <<>>
    ELSE IF Len(b) <= 3 THEN Base64Group(b)
    ELSE Base64Group(SubSeq(b, 1, 3)) \o Base64(SubSeq(b, 4, Len(b)))

\* str.replace(/c/g, d)
ReplaceAll(str, c, d) ==
    [i \in 1 .. Len(str) |-> IF str[i] = c THEN d ELSE str[i]]

\* str.replace(/c/g, "")
RemoveAll(str, c) ==
    LET keep(x) == x # c IN SelectSeq(str, keep)

\* A faulty variant of lines 84-91 that leaves the padding in.
generateCodeChallengePadded(digest) ==
    ReplaceAll(ReplaceAll(Base64(digest), "+", "-"), "/", "_")

\* Lines 84-91, from the digest on.
generateCodeChallenge(digest) ==
    RemoveAll(ReplaceAll(ReplaceAll(Base64(digest), "+", "-"), "/", "_"), "=")

NoPkce ==
    [pc |-> "idle", digest |-> <<>>, challenge |-> <<>>,
     length |-> 0, string |-> <<>>]

\* generateCodeChallenge(codeVerifier) returns
GenerateCodeChallenge ==
    /\ pkce.pc = "hashed"
    /\ pkce' = [pkce EXCEPT !.pc = "done",
                            !.challenge = generateCodeChallenge(pkce.digest)]
    /\ UNCHANGED <<clientVars, serverVars, ident>>

\* Math.ceil((length * 3) / 4)
RandomSize(length) == (length * 3 + 3) \div 4

\* a buffer of n bytes b
Filled(n, b) == [i \in 1 .. n |-> b]

\* randomBytes(n): every buffer over Bytes while n is small, the buffers of
\* one repeated byte beyond that
RandomBytes(n) ==
    IF n <= MaxDigestLen THEN SeqsOf(Bytes, n)
    ELSE {Filled(n, b) : b \in Bytes}

\* str.substring(0, length)
Substring(str, length) ==
    SubSeq(str, 1, IF length < Len(str) THEN length ELSE Len(str))

\* A faulty variant of lines 74-82 without the substring of line 81.
generateRandomStringUncut(length, buffer) ==
    RemoveAll(ReplaceAll(ReplaceAll(Base64(buffer), "+", "-"), "/", "_"), "=")

\* Lines 74-82, from the random buffer on.
generateRandomString(length, buffer) ==
    Substring(RemoveAll(ReplaceAll(ReplaceAll(Base64(buffer), "+", "-"),
                                   "/", "_"), "="),
              length)

\* generateRandomString(length) returns
GenerateRandomString ==
    /\ pkce.pc = "random"
    /\ pkce' = [pkce EXCEPT !.pc = "returned",
                            !.string = generateRandomString(pkce.length, pkce.digest)]
    /\ UNCHANGED <<clientVars, serverVars, ident>>

(***************************************************************************)
(* The two derivations of an identity from the claims of one ID token: the *)
(* browser decodes the token's payload (AuthContext.tsx 52-58, Callback.tsx *)
(* 50-56), the service reads the claims the gateway forwards (attachAuth).  *)
(* "" stands for a field the payload does not have.                        *)
(***************************************************************************)
DecodedPayloads ==
    {[sub |-> "alice", email |-> "alice@example.com", name |-> n,
      preferred_username |-> p, username |-> u, groups |-> g,
      email_verified |-> v] :
        n \in {"", "Alice"}, p \in {"", "alice1"}, u \in {"", "al"},
        g \in GroupClaims, v \in {"", "true", "false"}}

\* decoded['cognito:groups'] || []: only an absent claim or an empty string
\* is replaced by the empty list
GroupsOrEmpty(g) ==
    IF g.form = "none" \/ (g.form = "string" /\ g.str = "")
    THEN GroupList(<<>>)
    ELSE g

\* AuthContext.tsx 52-58: userFromToken
userFromToken(decoded) ==
    [sub |-> decoded.sub,
     email |-> decoded.email,
     name |-> IF decoded.name # "" THEN decoded.name
              ELSE IF decoded.preferred_username # ""
              THEN decoded.preferred_username
              ELSE decoded.username,
     groups |-> GroupsOrEmpty(decoded.groups),
     email_verified |-> decoded.email_verified]

\* the request as attachAuth finds it when the gateway forwarded the claims
Forwarded(decoded) ==
    LET h == ContextHeader("object", "claims",
                           [sub |-> decoded.sub, email |-> decoded.email,
                            groups |-> decoded.groups])
    IN  [Request("GET", "/v1/profile", "none", h, "none") EXCEPT
            !.apiGateway = [attached |-> TRUE, requestContext |-> h]]

NoIdent ==
    [claims |-> <<>>, decoded |-> FALSE, client |-> <<>>,
     attached |-> FALSE, server |-> NoIdentity]

UtilIdle == pkce = NoPkce /\ ident = NoIdent

\* the browser builds its identity from the decoded payload
DecodeIdToken ==
    /\ ident.claims # <<>> /\ ~ident.decoded
    /\ ident' = [ident EXCEPT !.decoded = TRUE,
                              !.client = userFromToken(ident.claims)]
    /\ UNCHANGED <<clientVars, serverVars, pkce>>

\* the service attaches its identity from the forwarded claims
AttachIdentity ==
    /\ ident.claims # <<>> /\ ~ident.attached
    /\ ident' = [ident EXCEPT
                    !.attached = TRUE,
                    !.server = attachAuth(Forwarded(ident.claims),
                                          NoResponse).req.auth]
    /\ UNCHANGED <<clientVars, serverVars, pkce>>

(***************************************************************************)
(* The tab's specification.                                                *)
(***************************************************************************)
LoadResults == {"ok", "missing", "fetchFail", "debugFail"}

ProfileResults ==
    {"noToken", "user", "unauthenticated", "status401", "status500",
     "network", "notjson"}

Init == ClientInit /\ ServerIdle /\ srv = ConfigCache(TRUE) /\ UtilIdle

\* no output of an earlier step is left to take
Quiet ==
    /\ gcu = NoCall
    /\ fetched = NoFetch
    /\ sentAuth = NoAuthRequest
    /\ page = "running"

\* the outputs of the last step are taken; the tab itself is as it was
Discard ==
    /\ ~Quiet
    /\ Silent
    /\ UNCHANGED <<storage, cfg, now, attempts, logins, logout, user, loading,
                   boot, cb, exch>>

Next ==
    \/ Quiet /\ (\E url \in Urls : PageLoad(url)) /\ UNCHANGED otherVars
    \/ Quiet /\ Tick /\ UNCHANGED otherVars
    \/ Quiet /\ StartLogin /\ UNCHANGED otherVars
    \/ Quiet /\ (\E o \in LoadResults : StartLoginConfig(o)) /\ UNCHANGED otherVars
    \/ Quiet /\ (\E n \in Attempts : StartLoginRedirect(n)) /\ UNCHANGED otherVars
    \/ Quiet /\ DoLogout /\ UNCHANGED otherVars
    \/ Quiet /\ (\E o \in LoadResults : DoLogoutConfig(o)) /\ UNCHANGED otherVars
    \/ Quiet /\ (\E o \in ProfileResults : BootstrapProfile(o)) /\ UNCHANGED otherVars
    \/ Quiet /\ (\E o \in ProfileResults : GetCurrentUser(o)) /\ UNCHANGED otherVars
    \/ Quiet /\ (\E url \in FetchUrls, options \in FetchOptions :
                    AuthenticatedFetch(url, options)) /\ UNCHANGED otherVars
    \/ Quiet /\ CallbackEffect /\ UNCHANGED otherVars
    \/ Quiet /\ (\E o \in LoadResults : ExchangeConfig(o)) /\ UNCHANGED otherVars
    \/ Quiet /\ (\E ans \in TokenAnswers(now) : ExchangeToken(ans)) /\ UNCHANGED otherVars
    \/ Quiet /\ (\E o \in ProfileResults : CallbackProfile(o)) /\ UNCHANGED otherVars
    \/ Quiet /\ CallbackUnmount /\ UNCHANGED otherVars
    \/ Discard /\ UNCHANGED otherVars

Spec == Init /\ [][Next]_vars

(***************************************************************************)
(* The tab with a profile service that answers: the request the            *)
(* AuthProvider's mount effect sent settles, with whatever outcome.  The   *)
(* fairness is strong because the step waits while an output of another    *)
(* step is still to be taken; taking an output is no step of the program   *)
(* and is never put off for ever.                                          *)
(***************************************************************************)
BootSettles ==
    Quiet /\ (\E o \in ProfileResults : BootstrapProfile(o)) /\ UNCHANGED otherVars

OutputTaken == Discard /\ UNCHANGED otherVars

\* Next without the getCurrentUser and authenticatedFetch calls of other
\* components: they change nothing but their own outputs, and nothing the
\* AuthProvider reads.
LiveNext ==
    \/ Quiet /\ (\E url \in Urls : PageLoad(url)) /\ UNCHANGED otherVars
    \/ Quiet /\ Tick /\ UNCHANGED otherVars
    \/ Quiet /\ StartLogin /\ UNCHANGED otherVars
    \/ Quiet /\ (\E o \in LoadResults : StartLoginConfig(o)) /\ UNCHANGED otherVars
    \/ Quiet /\ (\E n \in Attempts : StartLoginRedirect(n)) /\ UNCHANGED otherVars
    \/ Quiet /\ DoLogout /\ UNCHANGED otherVars
    \/ Quiet /\ (\E o \in LoadResults : DoLogoutConfig(o)) /\ UNCHANGED otherVars
    \/ BootSettles
    \/ Quiet /\ CallbackEffect /\ UNCHANGED otherVars
    \/ Quiet /\ (\E o \in LoadResults : ExchangeConfig(o)) /\ UNCHANGED otherVars
    \/ Quiet /\ (\E ans \in TokenAnswers(now) : ExchangeToken(ans)) /\ UNCHANGED otherVars
    \/ Quiet /\ (\E o \in ProfileResults : CallbackProfile(o)) /\ UNCHANGED otherVars
    \/ Quiet /\ CallbackUnmount /\ UNCHANGED otherVars
    \/ OutputTaken

LiveSpec ==
    Init /\ [][LiveNext]_vars /\ SF_vars(BootSettles) /\ WF_vars(OutputTaken)

(***************************************************************************)
(* The image service's specification.                                      *)
(***************************************************************************)
ServerInit ==
    /\ ClientInit
    /\ ServerIdle
    /\ srv \in {ConfigCache(e) : e \in BOOLEAN}
    /\ UtilIdle

ServerNext ==
    \/ \E r \in Requests : Receive(r)
    \/ RunCors
    \/ RunJson
    \/ RunRequestContext
    \/ RunRoute
    \/ RunAttachAuth
    \/ RunRequireAuth
    \/ RunRequireGroup
    \/ RunHealth
    \/ RunPing
    \/ RunGetProfile
    \/ \E o \in SsmOutcomes \cup {NoSsm} : RunGetConfig(o)
    \/ RunNotFound
    \/ RunErrorHandler
    \/ Finish

ServerSpec == ServerInit /\ [][ServerNext]_vars

(***************************************************************************)
(* The PKCE helpers' specification: one call on each digest.               *)
(***************************************************************************)
UtilInit ==
    /\ ClientInit
    /\ ServerIdle
    /\ srv = ConfigCache(TRUE)
    /\ pkce \in {[NoPkce EXCEPT !.pc = "hashed", !.digest = d] : d \in Digests}
                \cup UNION {{[NoPkce EXCEPT !.pc = "random", !.length = n,
                                            !.digest = b] :
                                 b \in RandomBytes(RandomSize(n))} :
                            n \in 0 .. MaxLength}
    /\ ident = NoIdent

UtilNext == GenerateCodeChallenge \/ GenerateRandomString

UtilSpec == UtilInit /\ [][UtilNext]_vars

(***************************************************************************)
(* The identity derivations' specification: both sides on each payload.    *)
(***************************************************************************)
IdentityInit ==
    /\ ClientInit
    /\ ServerIdle
    /\ srv = ConfigCache(TRUE)
    /\ pkce = NoPkce
    /\ ident \in {[NoIdent EXCEPT !.claims = d] : d \in DecodedPayloads}

IdentityNext == DecodeIdToken \/ AttachIdentity

IdentitySpec == IdentityInit /\ [][IdentityNext]_vars

(***************************************************************************)
(* Properties of the tab.                                                  *)
(***************************************************************************)
\* the step in which exchangeCodeForTokens, its configuration loaded, reads
\* the stored keys and checks the state (lines 92-98)
CheckStep ==
    /\ exch.pc = "config"
    /\ exch'.pc \in {"failed", "token"}
    /\ exch'.error \notin ConfigErrors

\* the step in which the token request of exchangeCodeForTokens settles
AnswerStep == exch.pc = "token" /\ exch'.pc \in {"ok", "failed"}

\* C1: with the provider configuration available, exchangeCodeForTokens
\* throws the invalid-state error, sends no token request and returns no
\* tokens when the given state differs from the stored one, when no state is
\* stored and when no code verifier is stored; the error is the same in the
\* three cases.  The first conjunct is about the calls the tab makes, the
\* second about the check on any combination of stored and given values.
C1_InvalidState ==
    /\ [][(CheckStep /\ (\/ storage.state = 0
                         \/ exch.state # storage.state
                         \/ storage.verifier = 0))
          => /\ exch'.pc = "failed"
             /\ exch'.error = InvalidStateError
             /\ ~exch'.sent
             /\ exch'.request = NoRequest
             /\ exch'.tokens = NoTokens
             /\ storage' = storage]_vars
    /\ [](\A st \in 0 .. MaxLogins, given \in 0 .. MaxLogins,
             ver \in 0 .. MaxLogins :
             (st = 0 \/ given # st \/ ver = 0)
             => LET e == ExchangeCheck(
                             [ExchIdle EXCEPT !.pc = "config", !.code = 1,
                                              !.state = given],
                             [storage EXCEPT !.state = st, !.verifier = ver])
                IN  /\ e.pc = "failed"
                    /\ e.error = InvalidStateError
                    /\ ~e.sent
                    /\ e.tokens = NoTokens)

\* a call that failed the check against a stored state of another attempt
C1_Witness ==
    /\ exch.pc = "failed"
    /\ exch.error = InvalidStateError
    /\ ~exch.sent
    /\ storage.state # 0
    /\ exch.state # 0
    /\ exch.state # storage.state

\* C2: whenever exchangeCodeForTokens returns successfully, the code
\* verifier, the state and the redirect URI are absent from session storage.
C2_KeysAbsentAfterSuccess ==
    [][(AnswerStep /\ exch'.pc = "ok")
       => /\ storage'.verifier = 0
          /\ storage'.state = 0
          /\ storage'.redirect = 0]_vars

\* a call that sent a stored verifier and returned tokens
C2_Witness ==
    /\ exch.pc = "ok"
    /\ exch.request.verifier # 0
    /\ Present(exch.tokens.access)
    /\ storage.verifier = 0
    /\ storage.state = 0
    /\ storage.redirect = 0

\* C3: once exchangeCodeForTokens has completed for a pending login attempt
\* (state and verifier stored), whether it succeeded, failed the state check
\* or was rejected by the token endpoint, the verifier, the state and the
\* redirect URI are no longer in storage.
C3_KeysDiscardedEitherWay ==
    [][((CheckStep \/ AnswerStep)
        /\ exch'.pc \in {"ok", "failed"}
        /\ exch'.error \in {"", InvalidStateError}
                         \cup {TokenExchangeError(t) : t \in ProviderTexts}
        /\ storage.state # 0
        /\ storage.verifier # 0)
       => /\ storage'.verifier = 0
          /\ storage'.state = 0
          /\ storage'.redirect = 0]_vars

\* C4: a stored token whose exp is in the past is never placed in an
\* outgoing Authorization header.
C4_NoExpiredBearer ==
    ~(sentAuth.bearer.kind = "jwt" /\ sentAuth.bearer.exp < sentAuth.at)

\* the step in which the profile call of the AuthProvider's effect settles
BootProfileStep == boot.pc = "profile" /\ boot'.pc = "done" /\ gcu'.settled

C9_ExpiredTokenPurged ==
    [][(/\ page' # "running"
        /\ LET checked == IF storage.id.kind # "none" THEN storage.id
                          ELSE storage.access
           IN  checked.kind = "jwt" /\ checked.exp < now)
       => /\ storage' = EmptyStorage
          /\ sentAuth' = NoAuthRequest
          /\ boot'.pc = "done"
          /\ user' = NoUser
          /\ ~loading']_vars

\* a page load that found an expired token and purged storage
C9_Witness ==
    /\ page = "expired"
    /\ storage = EmptyStorage
    /\ user = NoUser
    /\ ~loading
    /\ sentAuth = NoAuthRequest

\* C10: getCurrentUser never throws; it returns null when no token is
\* stored and for every outcome of the profile request but a success
\* response with authenticated true, for which it returns the user.
C10_GetCurrentUserNeverThrows ==
    /\ gcu.settled
       => /\ ~gcu.threw
          /\ gcu.value # NoUser => gcu.value.from = "profile"
    /\ \A o \in ProfileResults :
          LET r == GetCurrentUserResult(o, BearerToken(storage))
          IN  /\ ~r.threw
              /\ o # "user" => r.value = NoUser
              /\ o = "user" => r.value = ProfileUser(BearerToken(storage))

\* a call with a stored token that resolved to null
C10_Witness ==
    /\ gcu.settled
    /\ ~gcu.threw
    /\ gcu.value = NoUser
    /\ Present(BearerToken(storage))

\* the token the two functions are to send: the ID token when one is
\* stored, the access token only when none is
PreferredToken ==
    IF storage.id.kind # "none" THEN storage.id ELSE storage.access

\* C11: the bearer token getCurrentUser and authenticatedFetch send is the
\* stored ID token whenever one is stored and the stored access token only
\* when none is; the Authorization header of every request they send is
\* "Bearer " followed by that token.
C11_IdTokenPreferred ==
    /\ sentAuth # NoAuthRequest
       => /\ sentAuth.scheme = "Bearer"
          /\ sentAuth.bearer = PreferredToken
          /\ sentAuth.bearer.kind # "none"
    /\ fetched.sent
       => fetched.bearer = PreferredToken /\ sentAuth.bearer = fetched.bearer

\* authenticatedFetch has sent the ID token of a tab that stores both tokens
C11_Witness ==
    /\ fetched.sent
    /\ sentAuth.scheme = "Bearer"
    /\ storage.id.kind # "none"
    /\ storage.access.kind # "none"
    /\ sentAuth.bearer = storage.id

\* C12: authenticatedFetch(url, options) throws the no-credential error
\* and makes no request when neither token is stored; otherwise it makes
\* exactly one request, to url, with the caller's options unchanged but for
\* the Authorization header.
C12_FetchInjectsOnlyTheHeader ==
    fetched.called
    => IF storage.access.kind = "none" /\ storage.id.kind = "none"
       THEN /\ fetched.error = NoCredentialError
            /\ fetched.requests = <<>>
            /\ sentAuth = NoAuthRequest
       ELSE /\ fetched.error = ""
            /\ Len(fetched.requests) = 1
            /\ fetched.requests[1].url = fetched.args[1]
            /\ fetched.requests[1].init.method = fetched.args[2].method
            /\ fetched.requests[1].init.body = fetched.args[2].body
            /\ \A h \in DOMAIN fetched.args[2].headers \ {"Authorization"} :
                  fetched.requests[1].init.headers[h] = fetched.args[2].headers[h]
            /\ DOMAIN fetched.requests[1].init.headers
               = DOMAIN fetched.args[2].headers
            /\ fetched.requests[1].init.headers.Authorization
               = <<"Bearer", PreferredToken>>

\* a call with headers of its own went out with the stored token
C12_Witness ==
    /\ fetched.called
    /\ Len(fetched.requests) = 1
    /\ fetched.args[2].headers.Accept = "application/json"
    /\ fetched.requests[1].init.headers.Accept = "application/json"
    /\ fetched.requests[1].init.method = "POST"
    /\ fetched.requests[1].init.headers.Authorization[2] = PreferredToken

\* a doLogout call runs to its end or to its throw
LogoutSettles ==
    \/ DoLogout /\ LoadCall(cfg) = "hit"
    \/ \E o \in LoadOutcomes("fetch") : DoLogoutConfig(o)

\* C13: every doLogout call removes the access token, the ID token and the
\* PKCE verifier, state and redirect URI from storage; no call ends with a
\* token still stored.
C13_LogoutClearsEverything ==
    [][LogoutSettles => storage' = EmptyStorage]_vars

\* exchangeCodeForTokens(code, state) at its state check, configuration loaded
CheckOf(given, s) ==
    ExchangeCheck([ExchIdle EXCEPT !.pc = "config", !.code = 1, !.state = given],
                  s)

\* startLogin attempt n stores its keys over those of another attempt
StoresOver(n) ==
    /\ StartLoginRedirect(n)
    /\ storage.state \notin {0, n}

\* the later generated of two attempts
Latest(n, m) == IF n > m THEN n ELSE m
Earlier(n, m) == IF n > m THEN m ELSE n

\* C14 as stated: after two startLogin calls, sequential or interleaved,
\* the exchange with the state of the earlier attempt fails with the
\* invalid-state error and the exchange with the state of the most recent
\* attempt passes the check and sends that attempt's verifier.
C14_MostRecentCallWins ==
    [][\A n \in Attempts :
         StoresOver(n)
         => /\ CheckOf(Earlier(n, storage.state), storage').error
               = InvalidStateError
            /\ CheckOf(Latest(n, storage.state), storage').pc = "token"
            /\ CheckOf(Latest(n, storage.state), storage').request.verifier
               = Latest(n, storage.state)]_vars

\* C14, amended: after two startLogin calls the attempt that can be
\* completed is the one whose keys were stored last.  The exchange with the
\* state of the attempt stored over fails with the invalid-state error; the
\* exchange with the state stored last passes the check and sends the
\* verifier stored with it; and every exchange the tab runs is checked
\* against the state stored last.
C14_LastStoredWins ==
    /\ [][\A n \in Attempts :
            StoresOver(n)
            => /\ CheckOf(storage.state, storage').pc = "failed"
               /\ CheckOf(storage.state, storage').error = InvalidStateError
               /\ ~CheckOf(storage.state, storage').sent
               /\ CheckOf(n, storage').pc = "token"
               /\ CheckOf(n, storage').request.verifier = n]_vars
    /\ [][(CheckStep /\ storage.state # 0 /\ exch.state # 0)
          => IF exch.state = storage.state
             THEN /\ exch'.pc = "token"
                  /\ exch'.request.verifier = exch.state
             ELSE /\ exch'.pc = "failed"
                  /\ exch'.error = InvalidStateError
                  /\ ~exch'.sent]_vars

\* the exchange for the first attempt has failed against the keys of the
\* second
C14_Witness ==
    /\ attempts >= 2
    /\ exch.pc = "failed"
    /\ exch.error = InvalidStateError
    /\ exch.state = 1
    /\ storage.state = 2
    /\ storage.verifier = 2

\* one of the three keys of a login attempt is not in storage
KeyMissing(s) == s.verifier = 0 \/ s.state = 0 \/ s.redirect = 0

C16_VerifierConsumedOnce ==
    [][(AnswerStep /\ exch.sent)
       => storage'.verifier # exch.request.verifier]_vars

\* the message the Callback page shows when the exchange it called has
\* been answered with a, and the page went on as the step did
ShownAfter(a) == CallbackFail(cb, ExchangeSettle(exch, a).error).error

\* C21: when the token endpoint rejects the code, the message the Callback
\* page shows is generic, the same whatever error text the provider sent,
\* and the page then goes home; the failures of the state check (state
\* mismatch, no stored state, no stored verifier) show one message whatever
\* the cause, and the page then goes home.
C21_FailureMessageIsGeneric ==
    /\ [][(AnswerStep /\ exch'.pc = "failed"
           /\ exch'.error \notin {NetworkError, JsonError})
          => /\ cb'.pc = "timer"
             /\ \A a \in TokenAnswers(now) :
                   a.kind = "rejected" => ShownAfter(a) = cb'.error]_vars
    /\ [][(CheckStep /\ exch'.pc = "failed")
          => /\ cb'.pc = "timer"
             /\ cb'.error = InvalidStateError]_vars

\* the token a later /v1/profile request of this tab carries
NextBearer == BearerToken(storage')

PageLoadStep == \E url \in Urls : PageLoad(url)

\* a call of this step has gone out to fetch /v1/config
ConfigRequested ==
    \/ logins'.fetch > logins.fetch
    \/ logout' = "fetch" /\ logout = "idle"
    \/ exch'.pc = "config" /\ exch.pc # "config"

\* C23: in the client module the configuration is fetched once and reused:
\* once a loadCognitoConfig has stored both values, they stay as they are
\* for the life of the module instance, and no startLogin,
\* exchangeCodeForTokens or doLogout called from then on requests /v1/config.
C23_ConfigFetchedOnce ==
    /\ [][(cfg = "cached" /\ ~PageLoadStep) => cfg' = "cached"]_vars
    /\ [][(cfg = "cached" /\ ~PageLoadStep) => ~ConfigRequested]_vars

\* the step in which exchangeCodeForTokens posts to the token endpoint
TokenRequestStep == exch'.sent /\ ~exch.sent

\* C24: a token request goes out only in a step whose state check passed
\* (a stored state equal to the callback's, and a stored verifier), and it
\* carries the callback's code, the verifier and the redirect URI found in
\* storage, which are those the startLogin call of the callback's state
\* stored; the redirect URI is the one that call put in its authorization
\* request.  No request has gone out for a call that ended in the check.
C24_TokenRequestAfterCheck ==
    /\ [][TokenRequestStep
          => /\ storage.state # 0
             /\ exch'.state = storage.state
             /\ storage.verifier # 0
             /\ exch'.request.verifier = storage.verifier
             /\ exch'.request.verifier = exch'.state
             /\ storage.redirect # 0
             /\ exch'.request.redirect = storage.redirect
             /\ exch'.request.redirect = StoreAttempt(EmptyStorage, exch'.state).redirect
             /\ exch'.request.code = exch'.code
             /\ exch'.pc = "token"]_vars
    /\ [][(exch'.pc = "failed" /\ exch'.error = InvalidStateError)
          => ~exch'.sent]_vars

\* a token request in flight for the attempt whose state the callback carried
C24_Witness ==
    /\ exch.pc = "token"
    /\ exch.sent
    /\ exch.request.verifier = exch.state
    /\ exch.request.verifier \in Attempts
    /\ exch.request.redirect = getRedirectUri
    /\ cb.pc = "exchanging"

\* the step stores no token: a token present afterwards was there before
NoTokenStored ==
    /\ Present(getAccessToken(storage')) => getAccessToken(storage') = getAccessToken(storage)
    /\ Present(getIdToken(storage')) => getIdToken(storage') = getIdToken(storage)

\* the step removes no token
NoTokenRemoved ==
    /\ Present(getAccessToken(storage)) => Present(getAccessToken(storage'))
    /\ Present(getIdToken(storage)) => Present(getIdToken(storage'))

\* the AuthProvider's mount effect finds an expired or undecodable token
BootPurgeStep ==
    PageLoadStep /\ BootDecision(storage, now) \in {"expired", "undecodable"}

\* C25: tokens get into session storage only in the step in which an
\* exchangeCodeForTokens call returns, and they are the tokens it returned;
\* they leave it only through clearTokens, called by doLogout or by the
\* bootstrap on an expired or undecodable token.  The Callback page stores
\* nothing in a step that ends in its error display for an error parameter,
\* a missing code or state, or a failed exchange.  As a tab starts with
\* empty storage, a token present was stored by an exchange that succeeded
\* after the last clearTokens.
C25_TokensOnlyFromExchange ==
    /\ [][NoTokenStored
          \/ /\ AnswerStep /\ exch'.pc = "ok"
             /\ getAccessToken(storage') = exch'.tokens.access
             /\ getIdToken(storage') \in {exch'.tokens.id, getIdToken(storage)}]_vars
    /\ [][NoTokenRemoved
          \/ /\ LogoutSettles \/ BootPurgeStep
             /\ storage' = clearTokens(storage)]_vars
    /\ [][(cb'.pc = "timer" /\ cb.pc # "timer"
           /\ cb'.error \notin {NoUserMessage, ProfileThrewMessage})
          => NoTokenStored]_vars

\* an exchange has returned an access token only, and it is the one stored
C25_Witness ==
    /\ exch.pc = "ok"
    /\ Present(exch.tokens.access)
    /\ ~Present(exch.tokens.id)
    /\ getAccessToken(storage) = exch.tokens.access
    /\ cb.pc = "profile"

\* C28: in every reachable state of a tab, also between the steps of
\* interleaved startLogin calls, the stored code verifier and the stored
\* state are both absent or are both those of one startLogin call, one that
\* has got as far as its writes; the redirect URI is stored with them.
C28_VerifierAndStateOfOneAttempt ==
    /\ storage.verifier = storage.state
    /\ storage.state # 0 => storage.state \in 1 .. attempts
    /\ storage.state # 0 => storage.state \notin logins.challenge
    /\ (storage.state # 0) = (storage.redirect # 0)

\* the keys of one attempt are stored while another startLogin call, which
\* has generated its own state and verifier, still awaits its challenge
C28_Witness ==
    /\ storage.state # 0
    /\ storage.verifier = storage.state
    /\ logins.challenge # {}
    /\ storage.state \notin logins.challenge

\* C29: the AuthProvider's bootstrap always finishes: whatever the mount
\* effect finds (no tokens, an expired token, an undecodable token, or a
\* valid one whose profile call resolves with a user, resolves with null or
\* fails), loading becomes false once the profile request has settled; and
\* a provider whose loading is false never sets it to true again.
C29_BootstrapFinishes ==
    /\ loading ~> ~loading
    /\ [][loading' => (loading \/ PageLoadStep)]_vars
    /\ [][(PageLoadStep /\ BootDecision(storage, now) # "valid") => ~loading']_vars
    /\ [](loading <=> boot.pc = "profile")

\* a bootstrap that waited for its profile call has finished with the
\* tokens still stored
C29_Witness ==
    /\ ~loading
    /\ boot.pc = "done"
    /\ gcu.settled
    /\ boot.bearer # NoToken
    /\ Present(BearerToken(storage))

\* a call of exchangeCodeForTokens starts in this step
ExchangeStarts ==
    /\ exch'.pc # "idle"
    /\ \/ exch.pc = "idle"
       \/ PageLoadStep

\* C30: one mounted Callback page calls exchangeCodeForTokens at most once,
\* however often its effect re-runs: a call starts only for a page whose
\* hasExchanged flag was not yet set and whose callback has no error
\* parameter and has a code and a state, the flag is set in that same step,
\* it is never reset while the page is mounted, and a page that has the
\* flag set starts no call.
C30_ExchangeAtMostOnce ==
    /\ [][ExchangeStarts
          => /\ cb'.hasExchanged
             /\ CallbackValid(cb')
             /\ exch'.code = cb'.code /\ exch'.state = cb'.state
             /\ PageLoadStep \/ ~cb.hasExchanged]_vars
    /\ [][(cb.hasExchanged /\ ~PageLoadStep)
          => /\ cb'.hasExchanged \/ ~cb'.mounted
             /\ \/ exch'.pc = "idle"
                \/ /\ exch.pc # "idle"
                   /\ exch'.code = exch.code /\ exch'.state = exch.state
                   /\ exch'.pc = "config" => exch.pc = "config"
                   /\ exch.sent => exch'.sent]_vars
    /\ [](cb.hasExchanged => CallbackValid(cb))
    /\ []((cb.mounted /\ ~CallbackValid(cb)) => exch.pc = "idle")

\* the effect has re-run on a page that had exchanged: the flag is set, the
\* one call has ended and no other was started
C30_Witness ==
    /\ cb.mounted
    /\ cb.hasExchanged
    /\ cb.pc = "timer"
    /\ exch.pc = "failed"
    /\ exch.sent

(***************************************************************************)
(* Properties of the image service.                                        *)
(***************************************************************************)
\* a request that express hands to the routes: not a preflight, which cors
\* answers, and not one whose body express.json refuses
Routed(r) == r.method \in {"GET", "POST"} /\ r.body # "badJson"

\* position of a middleware in the chain still to run, 0 when not in it
Position(name) ==
    IF \E i \in DOMAIN stage : stage[i] = name
    THEN CHOOSE i \in DOMAIN stage : stage[i] = name
    ELSE 0

\* C5: under /v1/admin the route handler runs only for an attached identity
\* whose groups contain "administrators"; the chain runs attachAuth, then
\* requireAuth, then requireGroup, so that a request without identity is
\* answered 401, one with groups ["users"] 403, and one with groups
\* ["users", "administrators"] passes.
C5_AdminGate ==
    /\ res.by = "ping"
       => req.auth # NoIdentity /\ "administrators" \in req.auth.groups
    /\ (req.path \in AdminPaths /\ stage # <<>>)
       => /\ Position("requireAuth") # 0 => Position("attachAuth") < Position("requireAuth")
          /\ Position("requireGroup") # 0 => Position("requireAuth") < Position("requireGroup")
          /\ Position("ping") # 0 => Position("requireGroup") < Position("ping")
    /\ (req.path \in AdminPaths /\ Routed(req) /\ res.sent)
       => /\ ~HasClaims(req.apiGateway)
             => res.status = 401 /\ res.by = "requireAuth"
          /\ (HasClaims(req.apiGateway) /\ "administrators" \notin req.auth.groups)
             => res.status = 403 /\ res.by = "requireGroup"
          /\ (HasClaims(req.apiGateway)
              /\ req.header.claims.groups = GroupList(<<"users">>))
             => res.status = 403
          /\ (HasClaims(req.apiGateway)
              /\ req.header.claims.groups = GroupList(<<"users", "administrators">>))
             => res.by \in {"ping", "notFound"}
          /\ (HasClaims(req.apiGateway)
              /\ req.header.claims.groups = GroupList(<<"users", "administrators">>)
              /\ req.method = "GET")
             => res.status = 200 /\ res.by = "ping"

\* GET /v1/admin/ping of an identity with groups ["users"] was answered 403
C5_Witness ==
    /\ res.sent
    /\ req.path = "/v1/admin/ping"
    /\ req.auth # NoIdentity
    /\ req.auth.groups = {"users"}
    /\ res.status = 403

\* C6: a request to a protected route whose x-amzn-request-context header
\* is not valid JSON: the middleware of app.ts swallows the parse error,
\* attaches no context and calls next, and requireAuth answers 401 with the
\* body {error: "Authentication required"}.
C6_MalformedContext ==
    /\ [][(At("context") /\ req.header.json = "malformed")
          => /\ req'.apiGateway = NoContext
             /\ req'.err = NoErr
             /\ ~res'.sent
             /\ stage' = Tail(stage)]_vars
    /\ [](( /\ req.header.json = "malformed"
            /\ Routed(req)
            /\ \/ req.path \in AdminPaths
               \/ req.path = "/v1/profile" /\ req.method = "GET"
            /\ res.sent)
          => /\ req.apiGateway = NoContext
             /\ req.auth = NoIdentity
             /\ res.by = "requireAuth"
             /\ res.status = 401
             /\ res.body = ErrorBody("Authentication required"))

\* such a request to the admin route was answered 401
C6_Witness ==
    /\ res.sent
    /\ req.header.json = "malformed"
    /\ req.path = "/v1/admin/ping"
    /\ res.status = 401
    /\ res.body = ErrorBody("Authentication required")

\* C7: every response of the image service, whatever the route, the outcome
\* and the Origin header of the request, has Access-Control-Allow-Origin
\* "*" and the allowed methods and headers.
C7_PermissiveHeadersEverywhere ==
    res.sent
    => /\ res.acao = "*"
       /\ res.methods = AllowMethods
       /\ res.allowHeaders = AllowHeaders

\* GET /v1/profile as it reaches getProfile when only the context
\* middleware and attachAuth have run before it
ProfileRequest(h) ==
    attachAuth(requestContext(Request("GET", "/v1/profile", "none", h, "none"),
                              NoResponse).req, NoResponse).req

\* the answer to a profile request: 200 with the attached identity as the
\* user, or 401 with an error and no user
ProfileAnswer(r, s) ==
    IF r.auth # NoIdentity
    THEN /\ s.status = 200
         /\ s.body.json = "profile"
         /\ s.body.error = ""
         /\ s.body.user = r.auth
    ELSE /\ s.status = 401
         /\ s.body.json = "error"
         /\ s.body.error = "Authentication required"
         /\ s.body.user = NoIdentity

\* C19: GET /v1/profile answers authenticated with a user made of the sub,
\* email and groups of the attached identity exactly when an identity is
\* attached; otherwise it answers 401 with a JSON error body and no user.
\* The first conjunct is about the answers of the route, the second about
\* the controller on every request, with and without identity.
C19_ProfileIffIdentity ==
    /\ (res.sent /\ req.method = "GET" /\ req.path = "/v1/profile")
       => /\ ProfileAnswer(req, res)
          /\ res.by = (IF req.auth # NoIdentity THEN "getProfile"
                       ELSE "requireAuth")
    /\ \A h \in ContextHeaders :
          /\ ProfileAnswer(ProfileRequest(h),
                           getProfile(ProfileRequest(h), NoResponse).res)
          /\ getProfile(ProfileRequest(h), NoResponse).res.sent

\* the profile of an identity with two groups has been answered
C19_Witness ==
    /\ res.sent
    /\ req.path = "/v1/profile"
    /\ res.by = "getProfile"
    /\ res.status = 200
    /\ res.body.user.sub = "alice"
    /\ res.body.user.groups = {"users", "administrators"}

\* the failures of serving /v1/config: an SSM read rejects, the user-pool
\* id or the region is empty once loaded, the Origin (or, without one, the
\* Referer) header is not a URL
ConfigFails(o) ==
    \/ ~srv.domain /\ o.kind = "reject"
    \/ ~loadConfig(srv, o).userPool
    \/ ~loadConfig(srv, o).region
    \/ req.origin = "not a url"
    \/ req.origin = "none" /\ req.referer = "not a url"

\* C20: GET /v1/config answers 500 with the fixed body {error: "Failed to
\* load configuration"} for every failure while serving it, and the body
\* holds nothing else; on success it answers 200 with the configuration:
\* the Cognito domain, client id and region and the redirect URI of the
\* caller's origin.
C20_ConfigAnswer ==
    [][\A o \in SsmOutcomes \cup {NoSsm} :
         RunGetConfig(o)
         => IF ConfigFails(o)
            THEN /\ res'.sent
                 /\ res'.status = 500
                 /\ res'.body = ErrorBody("Failed to load configuration")
            ELSE /\ res'.sent
                 /\ res'.status = 200
                 /\ res'.body.json = "config"
                 /\ res'.body.error = ""
                 /\ res'.body.config.cognitoRegion
                 /\ res'.body.config.redirectUri
                    = (IF req.origin = "none" /\ req.referer = "none"
                       THEN <<>>
                       ELSE <<"https://app.example", "/callback">>)]_vars

\* the configuration has been refused for a Referer that is not a URL
C20_Witness ==
    /\ res.sent
    /\ res.by = "getConfig"
    /\ res.status = 500
    /\ res.body = ErrorBody("Failed to load configuration")
    /\ req.origin = "none"
    /\ req.referer = "not a url"
    /\ srv.userPool /\ srv.region

(***************************************************************************)
(* Properties of the PKCE helpers.                                         *)
(***************************************************************************)
\* the alphabet of base64url (RFC 4648, section 5)
Base64UrlChars ==
    [i \in 1 .. 64 |->
        IF i = 63 THEN "-" ELSE IF i = 64 THEN "_" ELSE Base64Chars[i]]

\* bit k (from 0, most significant first) of a byte string, 0 past its end
BitAt(b, k) ==
    IF k \div 8 + 1 > Len(b) THEN 0
    ELSE (b[k \div 8 + 1] \div (2 ^ (7 - (k % 8)))) % 2

\* the j-th group (from 0) of six bits
Sextet(b, j) ==
    32 * BitAt(b, 6 * j) + 16 * BitAt(b, 6 * j + 1) + 8 * BitAt(b, 6 * j + 2)
    + 4 * BitAt(b, 6 * j + 3) + 2 * BitAt(b, 6 * j + 4) + BitAt(b, 6 * j + 5)

\* base64url without padding: one character for every six bits begun
Base64UrlNoPad(b) ==
    [j \in 1 .. ((8 * Len(b) + 5) \div 6) |->
        Base64UrlChars[Sextet(b, j - 1) + 1]]

\* C17: generateCodeChallenge(v) is the base64url encoding without padding
\* of SHA-256(v): the standard base64 of the digest with '+' replaced by
\* '-', '/' by '_' and every '=' removed.
C17_ChallengeIsBase64Url ==
    pkce.pc = "done"
    => /\ pkce.challenge = Base64UrlNoPad(pkce.digest)
       /\ \A i \in 1 .. Len(pkce.challenge) :
             pkce.challenge[i] \notin {"+", "/", "="}
       /\ pkce.challenge
          = RemoveAll(ReplaceAll(ReplaceAll(Base64(pkce.digest), "+", "-"),
                                 "/", "_"), "=")

\* a challenge whose base64 form held '+', '/' and padding
C17_Witness ==
    /\ pkce.pc = "done"
    /\ \E i \in 1 .. Len(pkce.challenge) : pkce.challenge[i] = "-"
    /\ \E i \in 1 .. Len(pkce.challenge) : pkce.challenge[i] = "_"
    /\ Len(Base64(pkce.digest)) > Len(pkce.challenge)

\* the characters of the URL-safe alphabet
UrlSafe == {Base64UrlChars[i] : i \in 1 .. 64}

\* C27: for every length L >= 0, generateRandomString(L) returns exactly L
\* characters, each of A-Z, a-z, 0-9, '-' and '_': the ceil(3L/4) random
\* bytes encode to at least L characters once the padding is removed.
C27_RandomStringLength ==
    pkce.pc = "returned"
    => /\ Len(pkce.digest) = RandomSize(pkce.length)
       /\ Len(Base64UrlNoPad(pkce.digest)) >= pkce.length
       /\ Len(pkce.string) = pkce.length
       /\ \A i \in 1 .. Len(pkce.string) : pkce.string[i] \in UrlSafe
       /\ pkce.string = Substring(Base64UrlNoPad(pkce.digest), pkce.length)

\* a string of the longest length asked, from a buffer whose base64 form
\* held '/'
C27_Witness ==
    /\ pkce.pc = "returned"
    /\ pkce.length = MaxLength
    /\ Len(pkce.string) = MaxLength
    /\ pkce.length > MaxDigestLen
    /\ \E i \in 1 .. Len(pkce.string) : pkce.string[i] = "_"

(***************************************************************************)
(* Properties of the identity derivations.                                 *)
(***************************************************************************)
\* the elements of a groups value that is a list
Elements(g) == {g.list[i] : i \in DOMAIN g.list}

\* C18: the groups claim given as the string "administrators" and as the
\* list ["administrators"] normalises to the same set, and for either form
\* of the claim the identity the browser decodes from the ID token has
\* groups of the same shape, a list of strings, as the identity the
\* service derives from the forwarded claims.
C18_GroupsAgreeInShape ==
    /\ NormalizeGroups(GroupString("administrators"))
       = NormalizeGroups(GroupList(<<"administrators">>))
    /\ (ident.decoded /\ ident.attached)
       => /\ ident.client.groups.form = "list"
          /\ Elements(ident.client.groups) = ident.server.groups

====
